---- MODULE Spec2Model ----
(***************************************************************************)
(* A model of pymegablast (src/pymegablast.py): the sliding-window         *)
(* splitter, the megablast invocation, the result parser and the final     *)
(* report, together with the control flow of main().                       *)
(*                                                                         *)
(* Text is modelled as a sequence of one-character strings, so that        *)
(* str.split, str.startswith, string formatting and "\t".join are          *)
(* computed character by character.  A FASTA file is modelled as the       *)
(* sequence of records Bio.SeqIO reads from it or writes to it; a record   *)
(* is [id, description, seq].                                              *)
(***************************************************************************)
EXTENDS Integers, Sequences, FiniteSets, TLC

VARIABLES
    pc,             \* the stage main() is about to run, "done" once the process has exited
    inputIsFile,    \* os.path.isfile(args.input)
    window,         \* args.window
    window_length,  \* args.window_length
    input,          \* the records of the input FASTA file
    dirExisted,     \* os.path.isdir(args.output_dir) when the program starts
    dirCreated,     \* os.mkdir(args.output_dir) has been called
    sequence_file,  \* megablast_input.fasta: [exists, content], content the records
    tool_output,    \* the standard output text captured by check_output
    results_file,   \* megablast_results.txt: [exists, content], content the text
    results,        \* the list run_megablast returned (lines of text)
    counter,        \* the collections.Counter parse_results returned
    final_report,   \* final_report.txt: [exists, content], one line per print statement
    exit_code,      \* the exit status of the process, -1 while it runs
    message,        \* what the process wrote to standard error when exiting
    stages          \* history: the stages started so far, in order

vars == << pc, inputIsFile, window, window_length, input, dirExisted, dirCreated,
           sequence_file, tool_output, results_file, results, counter, final_report,
           exit_code, message, stages >>

-----------------------------------------------------------------------------
(* Bounds of the model *)

\* the longest residue string of an input record (SpecSplit)
MaxLen == 3
\* the largest number of records of an input file (SpecSplit)
MaxRecs == 2
\* the largest number of lines the tool's output is assembled from (Spec)
MaxLines == 3

-----------------------------------------------------------------------------
(* Characters and text *)

TAB == "\t"
NL == "\n"
HASH == "#"

Min(a, b) == IF a < b THEN a ELSE b

Digits == << "0", "1", "2", "3", "4", "5", "6", "7", "8", "9" >>

\* "{}".format(nb) for an integer nb >= 0: its decimal digits
RECURSIVE Str(_)
Str(n) ==
    IF n < 10 THEN << Digits[n + 1] >>
    ELSE Str(n \div 10) \o << Digits[(n % 10) + 1] >>

\* s[i:j] of Python for 0 <= i: the items at 0-based positions i .. j-1, clipped to s
Slice(s, i, j) == SubSeq(s, i + 1, Min(j, Len(s)))

\* the 1-based positions of s that hold the character c
Positions(s, c) == { k \in 1..Len(s) : s[k] = c }

\* the smallest member of a non-empty set of integers
Least(S) == CHOOSE k \in S : \A m \in S : k <= m

\* text.split(sep) for a one-character separator: always at least one piece
RECURSIVE Split(_, _)
Split(text, sep) ==
    IF Positions(text, sep) = {} THEN << text >>
    ELSE LET k == Least(Positions(text, sep))
         IN  << SubSeq(text, 1, k - 1) >> \o Split(SubSeq(text, k + 1, Len(text)), sep)

\* sep.join(pieces)
RECURSIVE Join(_, _)
Join(pieces, sep) ==
    IF pieces = << >> THEN << >>
    ELSE IF Len(pieces) = 1 THEN pieces[1]
    ELSE pieces[1] \o << sep >> \o Join(Tail(pieces), sep)

\* line.startswith("#")
StartsWithHash(line) == Len(line) >= 1 /\ line[1] = HASH

-----------------------------------------------------------------------------
(* split_fasta_sequences *)

\* ", window " of the description format string
WindowWord == << ",", " ", "w", "i", "n", "d", "o", "w", " " >>

\* sequences[-1].id + "_{}".format(nb)
WindowIdZeroBased(id, nb) == id \o << "_" >> \o Str(nb - 1)
WindowId(id, nb) == id \o << "_" >> \o Str(nb)

\* "{}, window {}".format(sequences[-1].description, nb)
WindowDescription(description, nb) == description \o WindowWord \o Str(nb)

\* len(seq) <= window_length: the sequence is too small, so no splitting
TooSmallStrict(L, w) == L < w
TooSmall(L, w) == L <= w

\* the upper limit of xrange(0, len(seq) - window_length + 1)
LoopLimitShort(L, w) == L - w
LoopLimit(L, w) == L - w + 1

\* seq[i:i+window_length] renamed: the record appended for loop index i, counter nb
WindowRecord(rec, w, i, nb) ==
    [ id          |-> WindowId(rec.id, nb),
      description |-> WindowDescription(rec.description, nb),
      seq         |-> Slice(rec.seq, i, i + w) ]

\* the inner loop: for i in xrange(0, len(seq) - window_length + 1), with nb
\* the counter incremented before each append
RECURSIVE WindowLoop(_, _, _, _)
WindowLoop(rec, w, i, nb) ==
    IF i >= LoopLimit(Len(rec.seq), w) THEN << >>
    ELSE << WindowRecord(rec, w, i, nb + 1) >> \o WindowLoop(rec, w, i + 1, nb + 1)

\* the body of the outer loop for one record: nb starts at 0 for each sequence
SplitOne(rec, w) ==
    IF TooSmall(Len(rec.seq), w) THEN << rec >>
    ELSE WindowLoop(rec, w, 0, 0)

\* the list `sequences` built over all the records of the input file
RECURSIVE SplitAll(_, _)
SplitAll(recs, w) ==
    IF recs = << >> THEN << >>
    ELSE SplitOne(Head(recs), w) \o SplitAll(Tail(recs), w)

-----------------------------------------------------------------------------
(* run_megablast *)

\* print >>o_file, line for every line of the list: each line, then a newline
RECURSIVE PrintLines(_)
PrintLines(lines) ==
    IF lines = << >> THEN << >>
    ELSE Head(lines) \o << NL >> \o PrintLines(Tail(lines))

\* output.split("\n")
OutputLines(text) == Split(text, NL)

-----------------------------------------------------------------------------
(* parse_results *)

\* while results[0].startswith("#"): del results[0]
\* results[0] of an empty list raises IndexError
RECURSIVE DropComments(_)
DropComments(lines) ==
    IF lines = << >> THEN [ raised |-> TRUE, lines |-> << >> ]
    ELSE IF StartsWithHash(lines[1]) THEN DropComments(Tail(lines))
    ELSE [ raised |-> FALSE, lines |-> lines ]

\* i.split("\t")[0]
FirstFieldWholeLine(line) == line
FirstField(line) == Split(line, TAB)[1]

\* one update of a Counter: the key's count incremented, a new key starting from 0
CountKey(c, key) ==
    IF key \in DOMAIN c THEN [ c EXCEPT ![key] = @ + 1 ]
    ELSE [ k \in DOMAIN c \cup { key } |-> IF k = key THEN 1 ELSE c[k] ]

\* Counter([i.split("\t")[0] for i in results]), counting the list from its first line
RECURSIVE CountLines(_, _)
CountLines(c, lines) ==
    IF lines = << >> THEN c
    ELSE CountLines(CountKey(c, FirstField(Head(lines))), Tail(lines))

\* results[seq.id] of a Counter: a missing key counts 0
Lookup(c, key) == IF key \in DOMAIN c THEN c[key] ELSE 0

-----------------------------------------------------------------------------
(* generate_final_output *)

\* "\t".join([seq.id, str(seq.seq), str(results[seq.id])])
ReportLine(rec, c) == Join(<< rec.id, rec.seq, Str(Lookup(c, rec.id)) >>, TAB)

\* one printed line per record SeqIO.parse yields from the sequence file
ReportLines(recs, c) == [ i \in 1..Len(recs) |-> ReportLine(recs[i], c) ]

-----------------------------------------------------------------------------
(* check_args *)

\* args.window_length < 0
WindowLengthInvalid(wl) == wl < 0

\* the message of the ProgramError check_args raises, "ok" when it returns True
CheckArgsResult ==
    IF ~inputIsFile THEN "no such file"
    ELSE IF window /\ WindowLengthInvalid(window_length) THEN "window size: invalid value"
    ELSE "ok"

-----------------------------------------------------------------------------
(* main *)

\* the order of the statements of main's try block
NextStageSkipsParse(stage) ==
    CASE stage = "check"   -> "mkdir"
      [] stage = "mkdir"   -> "prepare"
      [] stage = "prepare" -> "search"
      [] stage = "search"  -> "report"
      [] stage = "parse"   -> "report"
      [] OTHER             -> "done"
NextStage(stage) ==
    CASE stage = "check"   -> "mkdir"
      [] stage = "mkdir"   -> "prepare"
      [] stage = "prepare" -> "search"
      [] stage = "search"  -> "parse"
      [] stage = "parse"   -> "report"
      [] OTHER             -> "done"

\* the exit status main's except clauses give an exception: sys.exit(0) for
\* KeyboardInterrupt, parser.error (status 2) for ProgramError, and the
\* interpreter's status 1 for an exception no clause catches
ExitStatusInterruptUncaught(exc) ==
    CASE exc = "ProgramError" -> 2
      [] OTHER                -> 1
ExitStatus(exc) ==
    CASE exc = "KeyboardInterrupt" -> 0
      [] exc = "ProgramError"      -> 2
      [] OTHER                     -> 1

\* an exception exc carrying msg leaves the try block: the process exits
Raise(exc, msg) ==
    /\ pc' = "done"
    /\ exit_code' = ExitStatus(exc)
    /\ message' = msg

\* the statement completes and main goes on to the next one
Proceed(stage) ==
    /\ pc' = NextStage(stage)
    /\ exit_code' = IF NextStage(stage) = "done" THEN 0 ELSE exit_code
    /\ message' = message

NoFile == [ exists |-> FALSE, content |-> << >> ]
File(c) == [ exists |-> TRUE, content |-> c ]

\* check_args(args) returns True
CheckArgsPass ==
    /\ pc = "check"
    /\ CheckArgsResult = "ok"
    /\ stages' = Append(stages, "check")
    /\ Proceed("check")
    /\ UNCHANGED << inputIsFile, window, window_length, input, dirExisted, dirCreated,
                    sequence_file, tool_output, results_file, results, counter,
                    final_report >>

\* check_args(args) raises ProgramError
CheckArgsReject ==
    /\ pc = "check"
    /\ CheckArgsResult # "ok"
    /\ stages' = Append(stages, "check")
    /\ Raise("ProgramError", CheckArgsResult)
    /\ UNCHANGED << inputIsFile, window, window_length, input, dirExisted, dirCreated,
                    sequence_file, tool_output, results_file, results, counter,
                    final_report >>

\* if not os.path.isdir(args.output_dir): os.mkdir(args.output_dir)
MakeOutputDir ==
    /\ pc = "mkdir"
    /\ stages' = Append(stages, "mkdir")
    /\ dirCreated' = ~dirExisted
    /\ Proceed("mkdir")
    /\ UNCHANGED << inputIsFile, window, window_length, input, dirExisted,
                    sequence_file, tool_output, results_file, results, counter,
                    final_report >>

\* split_fasta_sequences(args.input, args.window_length, sequence_file)
SplitInput ==
    /\ pc = "prepare"
    /\ window
    /\ stages' = Append(stages, "split")
    /\ sequence_file' = File(SplitAll(input, window_length))
    /\ Proceed("prepare")
    /\ UNCHANGED << inputIsFile, window, window_length, input, dirExisted, dirCreated,
                    tool_output, results_file, results, counter, final_report >>

\* shutil.copyfile(args.input, sequence_file)
CopyInput ==
    /\ pc = "prepare"
    /\ ~window
    /\ stages' = Append(stages, "copy")
    /\ sequence_file' = File(input)
    /\ Proceed("prepare")
    /\ UNCHANGED << inputIsFile, window, window_length, input, dirExisted, dirCreated,
                    tool_output, results_file, results, counter, final_report >>

-----------------------------------------------------------------------------
(* The standard output texts the external tool may print (Spec) *)

\* the lines the texts are assembled from: a comment line, an empty line, a hit
\* of query a, a line that holds nothing but the identifier a_1, and a hit of
\* a query z that no input file holds
ToolLines ==
    { << HASH >>,
      << >>,
      << "a", TAB, "x" >>,
      << "a", "_", "1" >>,
      << "z", TAB, "x" >> }

\* the sequences of lo .. hi items of S
SeqsOf(S, lo, hi) == UNION { [ 1..n -> S ] : n \in lo..hi }

\* up to MaxLines lines joined by newlines, with or without a final newline
ToolOutputs ==
    { Join(ls, NL) \o t : ls \in SeqsOf(ToolLines, 0, MaxLines), t \in { << >>, << NL >> } }

-----------------------------------------------------------------------------
(* main, continued: run_megablast, parse_results, generate_final_output *)

\* check_output returns text; the results file is opened and written; the
\* list of lines is returned
RunMegablast ==
    /\ pc = "search"
    /\ stages' = Append(stages, "search")
    /\ \E text \in ToolOutputs :
          /\ tool_output' = text
          /\ results' = OutputLines(text)
          /\ results_file' = File(PrintLines(OutputLines(text)))
    /\ Proceed("search")
    /\ UNCHANGED << inputIsFile, window, window_length, input, dirExisted, dirCreated,
                    sequence_file, counter, final_report >>

\* check_output raises OSError: no megablast executable
MegablastNotFound ==
    /\ pc = "search"
    /\ stages' = Append(stages, "search")
    /\ Raise("ProgramError", "megablast: command not found")
    /\ UNCHANGED << inputIsFile, window, window_length, input, dirExisted, dirCreated,
                    sequence_file, tool_output, results_file, results, counter,
                    final_report >>

\* check_output raises CalledProcessError: megablast exited with a non-zero status
MegablastFailed ==
    /\ pc = "search"
    /\ stages' = Append(stages, "search")
    /\ Raise("ProgramError", "megablast: problem with megablast")
    /\ UNCHANGED << inputIsFile, window, window_length, input, dirExisted, dirCreated,
                    sequence_file, tool_output, results_file, results, counter,
                    final_report >>

\* the user interrupts the process while check_output waits for megablast
MegablastInterrupted ==
    /\ pc = "search"
    /\ stages' = Append(stages, "search")
    /\ Raise("KeyboardInterrupt", "Cancelled by user")
    /\ UNCHANGED << inputIsFile, window, window_length, input, dirExisted, dirCreated,
                    sequence_file, tool_output, results_file, results, counter,
                    final_report >>

\* check_output returns text, but open(megablast_results.txt, "w") raises IOError
ResultsFileNotWritable ==
    /\ pc = "search"
    /\ stages' = Append(stages, "search")
    /\ \E text \in ToolOutputs : tool_output' = text
    /\ Raise("ProgramError", "can't write file to")
    /\ UNCHANGED << inputIsFile, window, window_length, input, dirExisted, dirCreated,
                    sequence_file, results_file, results, counter, final_report >>

\* parse_results(results) returns the counter; the leading comment lines have
\* been deleted from the list
ParseResults ==
    /\ pc = "parse"
    /\ ~DropComments(results).raised
    /\ stages' = Append(stages, "parse")
    /\ results' = DropComments(results).lines
    /\ counter' = CountLines(<< >>, DropComments(results).lines)
    /\ Proceed("parse")
    /\ UNCHANGED << inputIsFile, window, window_length, input, dirExisted, dirCreated,
                    sequence_file, tool_output, results_file, final_report >>

\* parse_results(results) raises IndexError, which no except clause of main catches
ParseResultsRaises ==
    /\ pc = "parse"
    /\ DropComments(results).raised
    /\ stages' = Append(stages, "parse")
    /\ results' = DropComments(results).lines
    /\ Raise("IndexError", "IndexError: list index out of range")
    /\ UNCHANGED << inputIsFile, window, window_length, input, dirExisted, dirCreated,
                    sequence_file, tool_output, results_file, counter, final_report >>

\* generate_final_output(results, sequence_file, args.output_dir) writes the report
GenerateFinalOutput ==
    /\ pc = "report"
    /\ stages' = Append(stages, "report")
    /\ final_report' = File(ReportLines(sequence_file.content, counter))
    /\ Proceed("report")
    /\ UNCHANGED << inputIsFile, window, window_length, input, dirExisted, dirCreated,
                    sequence_file, tool_output, results_file, results, counter >>

\* open(final_report.txt, 'w') raises IOError
FinalReportNotWritable ==
    /\ pc = "report"
    /\ stages' = Append(stages, "report")
    /\ Raise("ProgramError", "can't write to")
    /\ UNCHANGED << inputIsFile, window, window_length, input, dirExisted, dirCreated,
                    sequence_file, tool_output, results_file, results, counter,
                    final_report >>

-----------------------------------------------------------------------------
(* Inputs *)

Rec(i, d, s) == [ id |-> i, description |-> d, seq |-> s ]

\* the identifiers of input records: a, and a_1, which is also the identifier
\* of the first window of a
Ids == { << "a" >>, << "a", "_", "1" >> }

\* the descriptions of input records
Descriptions == { << >>, << "d" >> }

\* the residue at 0-based position k of the reference strand ACGTACGT...
Residue(k) == << "A", "C", "G", "T" >>[(k % 4) + 1]

\* the n residues of the reference strand from 0-based position o on
Strand(o, n) == [ k \in 1..n |-> Residue(o + k - 1) ]

\* the input files of SpecSplit: 1 .. MaxRecs records of 0 .. MaxLen residues
SplitInputs ==
    SeqsOf({ Rec(i, d, Strand(o, n)) :
                i \in Ids, d \in Descriptions, o \in { 0, 2 }, n \in 0..MaxLen },
           1, MaxRecs)

\* the input files of Spec: one or two records among a=AC and a_1=A, so that
\* an identifier may occur twice, in the input or after windowing
MainInputs ==
    SeqsOf({ Rec(<< "a" >>, << "d" >>, << "A", "C" >>),
             Rec(<< "a", "_", "1" >>, << >>, << "A" >>) }, 1, 2)

\* the values of --window-length of Spec
MainWindowLengths == { -1, 0, 1 }

-----------------------------------------------------------------------------
(* The program: main() from the parsed arguments to the exit of the process *)

Init ==
    /\ pc = "check"
    /\ inputIsFile \in BOOLEAN
    /\ window \in BOOLEAN
    /\ window_length \in MainWindowLengths
    /\ input \in MainInputs
    /\ dirExisted \in BOOLEAN
    /\ dirCreated = FALSE
    /\ sequence_file = NoFile
    /\ tool_output = << >>
    /\ results_file = NoFile
    /\ results = << >>
    /\ counter = << >>
    /\ final_report = NoFile
    /\ exit_code = -1
    /\ message = ""
    /\ stages = << >>

Next ==
    \/ CheckArgsPass
    \/ CheckArgsReject
    \/ MakeOutputDir
    \/ SplitInput
    \/ CopyInput
    \/ RunMegablast
    \/ MegablastNotFound
    \/ MegablastFailed
    \/ MegablastInterrupted
    \/ ResultsFileNotWritable
    \/ ParseResults
    \/ ParseResultsRaises
    \/ GenerateFinalOutput
    \/ FinalReportNotWritable

Spec == Init /\ [][Next]_vars

-----------------------------------------------------------------------------
(* split_fasta_sequences alone: main() has checked the arguments and made   *)
(* the output directory, and --window is set                               *)

InitSplit ==
    /\ pc = "prepare"
    /\ inputIsFile = TRUE
    /\ window = TRUE
    /\ window_length \in 0..MaxLen
    /\ input \in SplitInputs
    /\ dirExisted = FALSE
    /\ dirCreated = TRUE
    /\ sequence_file = NoFile
    /\ tool_output = << >>
    /\ results_file = NoFile
    /\ results = << >>
    /\ counter = << >>
    /\ final_report = NoFile
    /\ exit_code = -1
    /\ message = ""
    /\ stages = << "check", "mkdir" >>

NextSplit == SplitInput

SpecSplit == InitSplit /\ [][NextSplit]_vars

-----------------------------------------------------------------------------
(* Vocabulary of the properties *)

\* the stage s has been started
Started(s) == \E k \in 1..Len(stages) : stages[k] = s

\* the number of records split_fasta_sequences is to emit for a sequence of
\* L residues: itself when L <= w, else one window per start position 0 .. L-w
EmittedFor(L, w) == IF L <= w THEN 1 ELSE L - w + 1

\* the number of records emitted for the first j records of the input file
RECURSIVE EmittedBefore(_, _, _)
EmittedBefore(recs, j, w) ==
    IF j = 0 THEN 0
    ELSE EmittedBefore(recs, j - 1, w) + EmittedFor(Len(recs[j].seq), w)

\* the sequence file has been written by split_fasta_sequences and holds as
\* many records as the input's sequences call for
SplitDone ==
    /\ Started("split")
    /\ sequence_file.exists
    /\ Len(sequence_file.content) = EmittedBefore(input, Len(input), window_length)

\* the record emitted at place k for the j-th input record
Emitted(j, k) == sequence_file.content[EmittedBefore(input, j - 1, window_length) + k]

\* C1: for an input sequence of length L and a window length w with 0 < w < L,
\* split_fasta_sequences emits exactly L - w + 1 windows, in order of start
\* position; the k-th has exactly w residues, those of the source at positions
\* k-1 .. k-1+w-1, so that consecutive windows overlap by w-1 residues.
C1_WindowsCoverSequence ==
    Started("split") =>
        /\ SplitDone
        /\ \A j \in 1..Len(input) :
              LET L == Len(input[j].seq)
                  w == window_length
              IN  (0 < w /\ w < L) =>
                    /\ EmittedBefore(input, j, w) - EmittedBefore(input, j - 1, w) = L - w + 1
                    /\ \A k \in 1..(L - w + 1) :
                          /\ Len(Emitted(j, k).seq) = w
                          /\ \A m \in 1..w : Emitted(j, k).seq[m] = input[j].seq[k - 1 + m]
                    /\ \A k \in 1..(L - w) :
                          \A m \in 1..(w - 1) :
                              Emitted(j, k).seq[m + 1] = Emitted(j, k + 1).seq[m]

\* C1 witness: the second record of the file has been cut into at least two windows
C1_Witness ==
    /\ SplitDone
    /\ Len(input) >= 2
    /\ 0 < window_length
    /\ Len(input[2].seq) - window_length + 1 >= 2
    /\ Len(input[1].seq) > 0

\* C7: an input sequence whose length is at most the window length is emitted
\* as exactly one record with the same identifier, description and residues.
C7_ShortSequencePassesThrough ==
    Started("split") =>
        /\ SplitDone
        /\ \A j \in 1..Len(input) :
              Len(input[j].seq) <= window_length =>
                  /\ EmittedBefore(input, j, window_length)
                        = EmittedBefore(input, j - 1, window_length) + 1
                  /\ Emitted(j, 1).id = input[j].id
                  /\ Emitted(j, 1).description = input[j].description
                  /\ Emitted(j, 1).seq = input[j].seq

\* C7 witness: a windowed record is followed by one exactly as long as the window
C7_Witness ==
    /\ SplitDone
    /\ Len(input) >= 2
    /\ Len(input[1].seq) > window_length
    /\ Len(input[2].seq) = window_length
    /\ window_length > 0

\* C8: the n-th window of a windowed sequence has the identifier <id>_<n> and
\* the description <description>, window <n>, with n counting from 1 for each
\* source sequence; the identifiers of one source's windows are pairwise distinct.
C8_WindowNames ==
    Started("split") =>
        /\ SplitDone
        /\ \A j \in 1..Len(input) :
              LET n == Len(input[j].seq) - window_length + 1
              IN  Len(input[j].seq) > window_length =>
                    /\ \A k \in 1..n :
                          /\ Emitted(j, k).id = input[j].id \o << "_" >> \o Str(k)
                          /\ Emitted(j, k).description =
                                input[j].description
                                   \o << ",", " ", "w", "i", "n", "d", "o", "w", " " >> \o Str(k)
                    /\ \A k1, k2 \in 1..n :
                          k1 # k2 => Emitted(j, k1).id # Emitted(j, k2).id

\* C8 witness: two sequences of one file have each been cut into several windows
C8_Witness ==
    /\ SplitDone
    /\ Len(input) >= 2
    /\ Len(input[1].seq) - window_length + 1 >= 2
    /\ Len(input[2].seq) - window_length + 1 >= 2
    /\ sequence_file.content[1].id = input[1].id \o << "_", "1" >>

\* the lines of the tool's standard output
ToolOutputLines == Split(tool_output, NL)

\* the places of the lines that follow the leading comment lines
AfterComments ==
    { k \in 1..Len(ToolOutputLines) :
        \E m \in 1..k : ~StartsWithHash(ToolOutputLines[m]) }

\* the text of a line before its first tab, the whole line when it has none
BeforeTab(line) ==
    IF \E k \in 1..Len(line) : line[k] = TAB
    THEN SubSeq(line, 1, Least({ k \in 1..Len(line) : line[k] = TAB }) - 1)
    ELSE line

\* the number of record lines of the tool's output whose first field is id
Hits(id) ==
    Cardinality({ k \in AfterComments :
                    ToolOutputLines[k] # << >> /\ BeforeTab(ToolOutputLines[k]) = id })

\* the fields of the i-th line of the final report
ReportFields(i) == Split(final_report.content[i], TAB)

\* the report has one line per record of the sequence file, in the file's
\* order, each with the record's identifier, residues and number of hits
ReportFollowsSequenceFile ==
    /\ Len(final_report.content) = Len(sequence_file.content)
    /\ \A i \in 1..Len(sequence_file.content) :
          /\ Len(ReportFields(i)) = 3
          /\ ReportFields(i)[1] = sequence_file.content[i].id
          /\ ReportFields(i)[2] = sequence_file.content[i].seq
          /\ ReportFields(i)[3] = Str(Hits(sequence_file.content[i].id))

\* the number of report lines that carry the identifier id
ReportLinesOf(id) ==
    Cardinality({ i \in 1..Len(final_report.content) : ReportFields(i)[1] = id })

\* the number of records of the sequence file that carry the identifier id
RecordsOf(id) ==
    Cardinality({ i \in 1..Len(sequence_file.content) : sequence_file.content[i].id = id })

\* C2 as stated: the final report has one line per record of the sequence file,
\* in order, with the number of hits of its identifier, and every identifier of
\* the sequence file appears exactly once in the report.
C2_EveryIdentifierOnce ==
    final_report.exists =>
        /\ ReportFollowsSequenceFile
        /\ \A i \in 1..Len(sequence_file.content) :
              ReportLinesOf(sequence_file.content[i].id) = 1

\* C2 as amended: the final report has one line per record of the sequence
\* file, in order, with the number of hits of its identifier, and an identifier
\* appears on as many report lines as records of the sequence file carry it.
C2_OneLinePerRecord ==
    final_report.exists =>
        /\ ReportFollowsSequenceFile
        /\ \A i \in 1..Len(sequence_file.content) :
              ReportLinesOf(sequence_file.content[i].id)
                 = RecordsOf(sequence_file.content[i].id)

\* C2 witness: a report in which an identifier the file holds twice has two
\* hits, another identifier has none, and the tool reported a foreign query
C2_Witness ==
    /\ final_report.exists
    /\ \E i, j \in 1..Len(sequence_file.content) :
          /\ i # j
          /\ sequence_file.content[i].id = sequence_file.content[j].id
          /\ ReportFields(i)[3] = << "2" >>
    /\ \E i \in 1..Len(sequence_file.content) : ReportFields(i)[3] = << "0" >>
    /\ Hits(<< "z" >>) = 1

\* the sum of the counts of the keys in S
RECURSIVE SumCounts(_, _)
SumCounts(c, S) ==
    IF S = {} THEN 0
    ELSE LET k == CHOOSE x \in S : TRUE
         IN  c[k] + SumCounts(c, S \ { k })

\* parse_results has returned its counter
ParseReturned == Started("parse") /\ exit_code # 1

\* C3: the counts of the mapping parse_results returns add up to the number of
\* lines of the tool's output that are neither comment lines nor empty.
C3_CountsSumToRecordLines ==
    ParseReturned =>
        SumCounts(counter, DOMAIN counter)
           = Cardinality({ k \in 1..Len(ToolOutputLines) :
                             /\ ToolOutputLines[k] # << >>
                             /\ ~StartsWithHash(ToolOutputLines[k]) })

\* C4: with --window and a window length of 0, check_args rejects the run: the
\* output directory is not created and split_fasta_sequences does not run.
C4_ZeroWindowRejected ==
    (window /\ window_length = 0) =>
        /\ ~Started("mkdir")
        /\ ~Started("split")
        /\ pc = "done" => exit_code = 2

\* C5: an interrupt while the external tool runs ends the process with exit
\* code 0; parse_results and generate_final_output do not run and
\* final_report.txt is not written.
C5_InterruptExitsCleanly ==
    message = "Cancelled by user" =>
        /\ pc = "done"
        /\ exit_code = 0
        /\ stages[Len(stages)] = "search"
        /\ ~Started("parse")
        /\ ~Started("report")
        /\ counter = << >>
        /\ ~final_report.exists

\* C5 witness: the run was interrupted after a split sequence file was written
C5_Witness ==
    /\ message = "Cancelled by user"
    /\ Started("split")
    /\ sequence_file.exists

\* C6: megablast_results.txt holds the tool's standard output character for
\* character, and the list run_megablast returns is the line sequence written.
C6_ResultsFileVerbatim ==
    (pc = "parse" /\ results_file.exists) =>
        /\ results_file.content = tool_output
        /\ PrintLines(results) = results_file.content

\* the stages in the order main runs them, preparing being a split or a copy
StageOrder == << "check", "mkdir", "prepare", "search", "parse", "report" >>

\* the k-th stage started, split and copy both read as prepare
StageAt(k) == IF stages[k] \in { "split", "copy" } THEN "prepare" ELSE stages[k]

\* the messages of the failures of the search stage
SearchFailures ==
    { "megablast: command not found", "megablast: problem with megablast",
      "can't write file to" }

\* C9: the stages start in the order split/copy, search, parse, report, one at
\* a time; a failed search ends the run at once with a non-zero exit status and
\* a message, and neither parse nor report runs nor is the report written.
C9_StagesInOrder ==
    /\ Len(stages) <= Len(StageOrder)
    /\ \A k \in 1..Len(stages) : StageAt(k) = StageOrder[k]
    /\ pc # "done" => pc = StageOrder[Len(stages) + 1]
    /\ message \in SearchFailures =>
          /\ pc = "done"
          /\ exit_code > 0
          /\ stages[Len(stages)] = "search"
          /\ counter = << >>
          /\ ~final_report.exists

\* C9 witness: the tool exited with a non-zero status
C9_Witness ==
    /\ message = "megablast: problem with megablast"
    /\ pc = "done"
    /\ sequence_file.exists

\* C10: parse_results returns for every list of lines the search stage hands
\* it; the run does not end in an unhandled error.
C10_ParseReturns == Started("parse") => exit_code # 1

====
